---- MODULE Spec2Model ----
(***************************************************************************)
(* FieldDependencies (src/field-dependencies.js): registries of State and  *)
(* Modifier templates, the singleton Element registry, the subscription    *)
(* graph built by createRelationship, and the synchronous cascade that a   *)
(* change event on a host element starts.                                  *)
(***************************************************************************)
EXTENDS Integers, Sequences, FiniteSets, TLC

(***************************************************************************)
(* Bounds of the model.                                                    *)
(***************************************************************************)
\* createRelationship calls in one behaviour
MaxRel == 2
\* addState / addModifier calls in one behaviour
MaxAdd == 3
\* change events in one behaviour
MaxChange == 1
\* setElementKeyCallback calls in one behaviour
MaxKey == 1
\* nesting of modifyDependents calls the engine's call stack allows
MaxDepth == 4

(***************************************************************************)
(* The host page: three jQuery elements with an id and a name attribute    *)
(* and one observable flag (checked / visible).                            *)
(***************************************************************************)
Hosts == {"h1", "h2", "h3"}
Keys == {"a", "b", "c"}
Values == {0, 1}

\* $element.attr(a)
attr(h, a) ==
    IF a = "id"
    THEN (CASE h = "h1" -> "a" [] h = "h2" -> "b" [] OTHER -> "c")
    ELSE (CASE h = "h1" -> "a" [] h = "h2" -> "a" [] OTHER -> "c")

\* the (dependency, dependent) pairs the page wires: the chain h1 -> h2 -> h3, the
\* cycle h1 -> h2 -> h1 and the self-dependency h1 -> h1
Pairs == {<<"h1", "h2">>, <<"h2", "h3">>, <<"h2", "h1">>, <<"h1", "h1">>}

\* the hosts that raise change events: the two inputs (h3 is a panel)
Inputs == {"h1", "h2"}

\* the key callbacks a page installs: the default one reads the id
Resolvers == {"id", "name"}

\* names under which templates are registered
StateNames == {"on", "1"}
ModifierNames == {"show"}

\* predicate callbacks handed to addState
Preds == {"isOn", "isOff"}
\* mutation callbacks handed to addModifier
Muts == {"turnOn", "fail"}

None == "none"

\* callback(self.element.$element) of a State: the predicate on the host flag
evalPred(p, v) == IF p = "isOn" THEN v = 1 ELSE v = 0

\* an engine that swallows what a callback throws
throwsNever(m) == FALSE

\* callback(this.element.$element) of a Modifier: the host flag afterwards
\* ("fail" throws before it touches the host)
applyMut(m, v) == IF m = "turnOn" THEN 1 ELSE v
throws(m) == m = "fail"

(***************************************************************************)
(* JavaScript's own-property order of a plain object: names that are array *)
(* indices first, ascending, then the other names in insertion order.      *)
(***************************************************************************)
isIndex(n) == n \in {"0", "1", "2"}
indexOf(n) == CASE n = "0" -> 0 [] n = "1" -> 1 [] n = "2" -> 2 [] OTHER -> -1

RECURSIVE sortedIndices(_)
sortedIndices(S) ==
    IF S = {} THEN <<>>
    ELSE LET m == CHOOSE x \in S : \A y \in S : indexOf(x) <= indexOf(y)
         IN <<m>> \o sortedIndices(S \ {m})

RECURSIVE filterSeq(_, _)
filterSeq(s, S) ==
    IF s = <<>> THEN <<>>
    ELSE IF Head(s) \in S THEN <<Head(s)>> \o filterSeq(Tail(s), S)
         ELSE filterSeq(Tail(s), S)

Range(s) == {s[i] : i \in 1..Len(s)}

\* for (var i in obj) over an object whose keys were inserted in `order`
forInKeys(order) ==
    sortedIndices({n \in Range(order) : isIndex(n)})
        \o filterSeq(order, {n \in Range(order) : ~isIndex(n)})

VARIABLES
    statesContainer,     \* statesContainer.states: name -> predicate of the template
    modifiersContainer,  \* modifiersContainer.modifiers: name -> mutation of the template
    getElementKey,       \* that.getElementKey: the key callback in force
    elements,            \* elementsContainer.elements: key -> Element (0: no such property)
    elementObjs,         \* the Element instances, by identity, in construction order
    stateObjs,           \* the State instances, by identity
    modifierObjs,        \* the Modifier instances, by identity
    value,               \* the flag of each host element
    stack,               \* the nested modifyDependents calls of the running cascade
    pending,             \* change handlers of the event still to run
    log,                 \* what the current (or last) change event did, in order
    last,                \* the last public operation and how it ended
    calls,               \* the createRelationship calls that returned normally
    resolutions,         \* the calls of elementsContainer.resolve made so far, with what each returned
    nRel, nAdd, nChange, nKey  \* operation counters

vars == <<statesContainer, modifiersContainer, getElementKey, elements, elementObjs,
          stateObjs, modifierObjs, value, stack, pending, log, last, calls, resolutions,
          nRel, nAdd, nChange, nKey>>

(***************************************************************************)
(* The object graph.  An instance is named by its position in the list of  *)
(* instances of its kind; 0 stands for undefined.                          *)
(***************************************************************************)
Heap == [elements |-> elements, elementObjs |-> elementObjs,
         stateObjs |-> stateObjs, modifierObjs |-> modifierObjs]

\* new Element($element)
Element(h) ==
    [host |-> h,
     states |-> [n \in StateNames |-> 0],
     keys |-> <<>>,
     modifiers |-> [n \in ModifierNames |-> 0]]

\* new State(callback)
State(callback) == [element |-> 0, callback |-> callback, modifiers |-> <<>>]

\* new Modifier(callback)
Modifier(callback) == [element |-> 0, callback |-> callback, states |-> <<>>]

\* elementsContainer.get: the Element stored under the host's key, or undefined
get(H, resolver, h) == H.elements[attr(h, resolver)]

\* resolve without the lookup: a new Element on every call
resolveNoLookup(H, resolver, h) ==
    [heap |-> [H EXCEPT !.elementObjs = Append(@, Element(h)),
                        !.elements[attr(h, resolver)] = Len(H.elementObjs) + 1],
     element |-> Len(H.elementObjs) + 1]

\* elementsContainer.resolve: the heap afterwards and the Element returned
resolve(H, resolver, h) ==
    LET element == get(H, resolver, h)
        key == attr(h, resolver)
        fresh == Len(H.elementObjs) + 1
    IN IF element # 0
       THEN [heap |-> H, element |-> element]
       ELSE [heap |-> [H EXCEPT !.elementObjs = Append(@, Element(h)),
                                !.elements[key] = fresh],
             element |-> fresh]

\* the record of one resolution
Resolution(resolver, h, e) == [resolver |-> resolver, host |-> h, element |-> e]

\* a get that clones a missing template into a State without callback
statesContainerGetLenient(sc, key) == sc[key]

\* statesContainer.get / modifiersContainer.get: the callback the clone carries;
\* reading .callback of a missing template throws
statesContainerGet(sc, key) == IF sc[key] = None THEN "TypeError" ELSE sc[key]
modifiersContainerGet(mc, key) == IF mc[key] = None THEN "TypeError" ELSE mc[key]

\* the attach step without its guard
absentAlways(instance) == TRUE

\* if (!element.getState(name)) / if (!element.getModifier(name))
absent(instance) == instance = 0

\* Element.getState / Element.getModifier
getState(H, e, key) == H.elementObjs[e].states[key]
getModifier(H, e, key) == H.elementObjs[e].modifiers[key]

\* attachState that stores the State without making the Element its owner
attachStateNoOwner(H, e, key, callback) ==
    LET s == Len(H.stateObjs) + 1
    IN [H EXCEPT !.stateObjs = Append(@, State(callback)),
                 !.elementObjs[e].states[key] = s,
                 !.elementObjs[e].keys =
                     IF key \in Range(@) THEN @ ELSE Append(@, key)]

\* Element.attachState with a State just made from the template's callback
attachState(H, e, key, callback) ==
    LET s == Len(H.stateObjs) + 1
    IN [H EXCEPT !.stateObjs = Append(@, [State(callback) EXCEPT !.element = e]),
                 !.elementObjs[e].states[key] = s,
                 !.elementObjs[e].keys =
                     IF key \in Range(@) THEN @ ELSE Append(@, key)]

\* Element.attachModifier with a Modifier just made from the template's callback
attachModifier(H, e, key, callback) ==
    LET m == Len(H.modifierObjs) + 1
    IN [H EXCEPT !.modifierObjs = Append(@, [Modifier(callback) EXCEPT !.element = e]),
                 !.elementObjs[e].modifiers[key] = m]

\* subscribe that also hands the State to every other Modifier subscribed to a
\* State of this Modifier's Element: inheritance kept up to date
subscribeLive(H, m, s) ==
    LET followers == {m2 \in 1..Len(H.modifierObjs) :
                        /\ m2 # m
                        /\ \E j \in 1..Len(H.modifierObjs[m2].states) :
                              H.stateObjs[H.modifierObjs[m2].states[j]].element =
                                 H.modifierObjs[m].element}
    IN [H EXCEPT !.stateObjs[s].modifiers =
                     Append(@, m) \o filterSeq([j \in 1..Len(H.modifierObjs) |-> j], followers),
                 !.modifierObjs =
                     [m2 \in 1..Len(H.modifierObjs) |->
                        IF m2 = m \/ m2 \in followers
                        THEN [H.modifierObjs[m2] EXCEPT !.states = Append(@, s)]
                        ELSE H.modifierObjs[m2]]]

\* subscribe that forgets the Modifier's own list
subscribeStateOnly(H, m, s) == [H EXCEPT !.stateObjs[s].modifiers = Append(@, m)]

\* Modifier.subscribe, with State.addModifier
subscribe(H, m, s) ==
    [H EXCEPT !.stateObjs[s].modifiers = Append(@, m),
              !.modifierObjs[m].states = Append(@, s)]

\* an inheritance loop that subscribes to nothing
subscribeNone(H, m, cascadingStates) == H

\* for (var key in cascadingStates) subModifier.subscribe(cascadingStates[key]):
\* the keys are those the list has when the loop starts
RECURSIVE subscribeAll(_, _, _)
subscribeAll(H, m, cascadingStates) ==
    IF cascadingStates = <<>> THEN H
    ELSE subscribeAll(subscribe(H, m, Head(cascadingStates)), m, Tail(cascadingStates))

(***************************************************************************)
(* createRelationship: the heap it leaves, how it ends ("ok", or           *)
(* "TypeError" when a container has no template under the name) and the    *)
(* resolutions it made.                                                    *)
(***************************************************************************)
createRelationship(H, sc, mc, resolver, dep, stateName, dept, modifierName, inheritState) ==
    LET r1 == resolve(H, resolver, dep)
        dependencyElement == r1.element
        res1 == <<Resolution(resolver, dep, dependencyElement)>>
        needState == absent(getState(r1.heap, dependencyElement, stateName))
        stateCallback == statesContainerGet(sc, stateName)
    IN IF needState /\ stateCallback = "TypeError"
       THEN [heap |-> r1.heap, result |-> "TypeError", resolved |-> res1]
       ELSE
       LET H2 == IF needState
                 THEN attachState(r1.heap, dependencyElement, stateName, stateCallback)
                 ELSE r1.heap
           r2 == resolve(H2, resolver, dept)
           dependentElement == r2.element
           res2 == Append(res1, Resolution(resolver, dept, dependentElement))
           needModifier == absent(getModifier(r2.heap, dependentElement, modifierName))
           modifierCallback == modifiersContainerGet(mc, modifierName)
       IN IF needModifier /\ modifierCallback = "TypeError"
          THEN [heap |-> r2.heap, result |-> "TypeError", resolved |-> res2]
          ELSE
          LET H3 == IF needModifier
                    THEN attachModifier(r2.heap, dependentElement, modifierName,
                                        modifierCallback)
                    ELSE r2.heap
              pubState == getState(H3, dependencyElement, stateName)
              subModifier == getModifier(H3, dependentElement, modifierName)
              H4 == subscribe(H3, subModifier, pubState)
              upstream == getModifier(H4, dependencyElement, modifierName)
          IN IF inheritState /\ upstream # 0
             THEN [heap |-> subscribeAll(H4, subModifier, H4.modifierObjs[upstream].states),
                   result |-> "ok", resolved |-> res2]
             ELSE [heap |-> H4, result |-> "ok", resolved |-> res2]

(***************************************************************************)
(* The cascade.  A frame of `stack` is one running modifyDependents call:  *)
(* the Element, the active States it collected when it began, and the      *)
(* position of its two loops (State si of `active`, Modifier mi of that    *)
(* State's subscriber list).                                               *)
(***************************************************************************)
hostOf(H, e) == H.elementObjs[e].host

\* an isActive that holds of every State
isActiveAlways(H, val, s) == TRUE

\* State.isActive
isActive(H, val, s) ==
    evalPred(H.stateObjs[s].callback, val[hostOf(H, H.stateObjs[s].element)])

RECURSIVE activeAmong(_, _, _, _)
activeAmong(H, val, e, names) ==
    IF names = <<>> THEN <<>>
    ELSE LET s == H.elementObjs[e].states[Head(names)]
         IN (IF isActive(H, val, s) THEN <<s>> ELSE <<>>)
                \o activeAmong(H, val, e, Tail(names))

\* Element.getActiveStates: the active States, in the order for..in visits them
getActiveStates(H, val, e) == activeAmong(H, val, e, forInKeys(H.elementObjs[e].keys))

\* publish that notifies each subscriber once, however often it subscribed
RECURSIVE distinctSeq(_, _)
distinctSeq(s, seen) ==
    IF s = <<>> THEN <<>>
    ELSE IF Head(s) \in seen THEN distinctSeq(Tail(s), seen)
         ELSE <<Head(s)>> \o distinctSeq(Tail(s), seen \cup {Head(s)})

publishDistinct(H, s) == distinctSeq(H.stateObjs[s].modifiers, {})

\* publish that stops after its first subscriber
publishFirst(H, s) ==
    IF H.stateObjs[s].modifiers = <<>> THEN <<>>
    ELSE <<Head(H.stateObjs[s].modifiers)>>

\* State.publish: the subscribers it executes, in order
publishList(H, s) == H.stateObjs[s].modifiers

\* One entry of the log.  "fanout": modifyDependents of `element` began at nesting
\* `depth`, its host's flag was `flag` and it collected the States `active`.
\* "execute" / "throw": State `state` made Modifier `modifier` (on `element`, whose
\* host's flag was `flag`) run its callback, which returned / threw.  `hosts` are
\* the flags of all hosts at that moment.
Entry(kind, e, s, m, active, depth, flag, hosts) ==
    [kind |-> kind, element |-> e, state |-> s, modifier |-> m,
     active |-> active, depth |-> depth, flag |-> flag, hosts |-> hosts]

\* the call of modifyDependents on Element e: its frame
modifyDependents(H, val, e) ==
    [element |-> e, active |-> getActiveStates(H, val, e), si |-> 1, mi |-> 1]

\* execute with its two statements swapped: the cascade before the callback
executeCascadeFirst(H, val, m) ==
    LET e == H.modifierObjs[m].element
    IN [value |-> [val EXCEPT ![hostOf(H, e)] = applyMut(H.modifierObjs[m].callback, @)],
        frame |-> modifyDependents(H, val, e),
        flag |-> val[hostOf(H, e)]]

\* execute that runs the callback and does not cascade
executeNoCascade(H, val, m) ==
    LET e == H.modifierObjs[m].element
        after == [val EXCEPT ![hostOf(H, e)] = applyMut(H.modifierObjs[m].callback, @)]
    IN [value |-> after,
        frame |-> [element |-> e, active |-> <<>>, si |-> 1, mi |-> 1],
        flag |-> after[hostOf(H, e)]]

\* execute that cascades from the Element of the State it subscribes to first
\* instead of its own
executeCascadeDependency(H, val, m) ==
    LET e == H.modifierObjs[m].element
        from == H.stateObjs[H.modifierObjs[m].states[1]].element
        after == [val EXCEPT ![hostOf(H, e)] = applyMut(H.modifierObjs[m].callback, @)]
    IN [value |-> after,
        frame |-> modifyDependents(H, after, from),
        flag |-> after[hostOf(H, from)]]

\* Modifier.execute without failure: the hosts after the callback, and the call of
\* modifyDependents on the Modifier's Element that follows it (with the flag its
\* predicates read)
execute(H, val, m) ==
    LET e == H.modifierObjs[m].element
        after == [val EXCEPT ![hostOf(H, e)] = applyMut(H.modifierObjs[m].callback, @)]
    IN [value |-> after,
        frame |-> modifyDependents(H, after, e),
        flag |-> after[hostOf(H, e)]]

\* loops in which publish checks again that its State is active
RECURSIVE settleRecheck(_, _, _, _, _)
settleRecheck(H, val, stk, pend, lg) ==
    IF stk = <<>>
    THEN IF pend = <<>>
         THEN [stack |-> stk, pending |-> pend, log |-> lg]
         ELSE LET f == modifyDependents(H, val, Head(pend))
              IN settleRecheck(H, val, <<f>>, Tail(pend),
                        Append(lg, Entry("fanout", Head(pend), 0, 0, f.active, 1,
                                         val[hostOf(H, Head(pend))], val)))
    ELSE LET d == Len(stk)
             top == stk[d]
         IN IF top.si > Len(top.active)
            THEN settleRecheck(H, val, SubSeq(stk, 1, d - 1), pend, lg)
            ELSE IF \/ top.mi > Len(publishList(H, top.active[top.si]))
                    \/ ~isActive(H, val, top.active[top.si])
                 THEN settleRecheck(H, val, [stk EXCEPT ![d].si = @ + 1, ![d].mi = 1],
                                    pend, lg)
                 ELSE [stack |-> stk, pending |-> pend, log |-> lg]

\* Run the loops of the innermost calls up to the next Modifier.execute: leave
\* finished loops, return from finished calls, start the next change handler.
RECURSIVE settle(_, _, _, _, _)
settle(H, val, stk, pend, lg) ==
    IF stk = <<>>
    THEN IF pend = <<>>
         THEN [stack |-> stk, pending |-> pend, log |-> lg]
         ELSE LET f == modifyDependents(H, val, Head(pend))
              IN settle(H, val, <<f>>, Tail(pend),
                        Append(lg, Entry("fanout", Head(pend), 0, 0, f.active, 1,
                                         val[hostOf(H, Head(pend))], val)))
    ELSE LET d == Len(stk)
             top == stk[d]
         IN IF top.si > Len(top.active)
            THEN settle(H, val, SubSeq(stk, 1, d - 1), pend, lg)
            ELSE IF top.mi > Len(publishList(H, top.active[top.si]))
                 THEN settle(H, val, [stk EXCEPT ![d].si = @ + 1, ![d].mi = 1], pend, lg)
                 ELSE [stack |-> stk, pending |-> pend, log |-> lg]

\* the change handlers bound to a host: one per Element built on it, oldest first
RECURSIVE handlersFrom(_, _, _)
handlersFrom(H, h, e) ==
    IF e > Len(H.elementObjs) THEN <<>>
    ELSE (IF hostOf(H, e) = h THEN <<e>> ELSE <<>>) \o handlersFrom(H, h, e + 1)

handlers(H, h) == handlersFrom(H, h, 1)

Idle == stack = <<>> /\ pending = <<>>

Op(op, args, result, repeat) ==
    [op |-> op, args |-> args, result |-> result, repeat |-> repeat]

(***************************************************************************)
(* The public operations.                                                  *)
(***************************************************************************)
Init ==
    /\ statesContainer = [n \in StateNames |-> None]
    /\ modifiersContainer = [n \in ModifierNames |-> None]
    /\ getElementKey = "id"
    /\ elements = [k \in Keys |-> 0]
    /\ elementObjs = <<>>
    /\ stateObjs = <<>>
    /\ modifierObjs = <<>>
    /\ value = [h \in Hosts |-> 0]
    /\ stack = <<>>
    /\ pending = <<>>
    /\ log = <<>>
    /\ last = Op("init", <<>>, "ok", FALSE)
    /\ calls = {}
    /\ resolutions = {}
    /\ nRel = 0
    /\ nAdd = 0
    /\ nChange = 0
    /\ nKey = 0

AddState(name, callback) ==
    /\ Idle
    /\ nAdd < MaxAdd
    /\ statesContainer[name] # callback
    /\ statesContainer' = [statesContainer EXCEPT ![name] = callback]
    /\ nAdd' = nAdd + 1
    /\ log' = <<>>
    /\ last' = Op("addState", <<name, callback>>, "ok", FALSE)
    /\ UNCHANGED <<modifiersContainer, getElementKey, elements, elementObjs, stateObjs,
                   modifierObjs, value, stack, pending, calls, resolutions, nRel, nChange, nKey>>

AddModifier(name, callback) ==
    /\ Idle
    /\ nAdd < MaxAdd
    /\ modifiersContainer[name] # callback
    /\ modifiersContainer' = [modifiersContainer EXCEPT ![name] = callback]
    /\ nAdd' = nAdd + 1
    /\ log' = <<>>
    /\ last' = Op("addModifier", <<name, callback>>, "ok", FALSE)
    /\ UNCHANGED <<statesContainer, getElementKey, elements, elementObjs, stateObjs,
                   modifierObjs, value, stack, pending, calls, resolutions, nRel, nChange, nKey>>

\* a replacement of the key callback that also empties the Element registry
SetElementKeyCallbackReset(callback) ==
    /\ Idle
    /\ nKey < MaxKey
    /\ callback # getElementKey
    /\ getElementKey' = callback
    /\ elements' = [k \in Keys |-> 0]
    /\ nKey' = nKey + 1
    /\ log' = <<>>
    /\ last' = Op("setElementKeyCallback", <<callback>>, "ok", FALSE)
    /\ UNCHANGED <<statesContainer, modifiersContainer, elementObjs, stateObjs,
                   modifierObjs, value, stack, pending, calls, resolutions, nRel, nAdd, nChange>>

SetElementKeyCallback(callback) ==
    /\ Idle
    /\ nKey < MaxKey
    /\ callback # getElementKey
    /\ getElementKey' = callback
    /\ nKey' = nKey + 1
    /\ log' = <<>>
    /\ last' = Op("setElementKeyCallback", <<callback>>, "ok", FALSE)
    /\ UNCHANGED <<statesContainer, modifiersContainer, elements, elementObjs, stateObjs,
                   modifierObjs, value, stack, pending, calls, resolutions, nRel, nAdd, nChange>>

\* a createRelationship that applies the Modifier at once when the State is active
CreateRelationshipEager(dep, stateName, dept, modifierName, inheritState) ==
    LET r == createRelationship(Heap, statesContainer, modifiersContainer, getElementKey,
                                dep, stateName, dept, modifierName, inheritState)
        call == <<getElementKey, dep, stateName, dept, modifierName, inheritState>>
        D == r.heap.elements[attr(dep, getElementKey)]
        E == r.heap.elements[attr(dept, getElementKey)]
        m == r.heap.elementObjs[E].modifiers[modifierName]
    IN /\ Idle
       /\ nRel < MaxRel
       /\ elements' = r.heap.elements
       /\ elementObjs' = r.heap.elementObjs
       /\ stateObjs' = r.heap.stateObjs
       /\ modifierObjs' = r.heap.modifierObjs
       /\ nRel' = nRel + 1
       /\ log' = <<>>
       /\ last' = Op("createRelationship",
                     <<dep, stateName, dept, modifierName, inheritState>>,
                     r.result, call \in calls)
       /\ calls' = IF r.result = "ok" THEN calls \cup {call} ELSE calls
       /\ resolutions' = resolutions \cup Range(r.resolved)
       /\ value' = IF /\ r.result = "ok"
                      /\ isActive(r.heap, value, r.heap.elementObjs[D].states[stateName])
                   THEN [value EXCEPT ![hostOf(r.heap, E)] =
                            applyMut(r.heap.modifierObjs[m].callback, @)]
                   ELSE value
       /\ UNCHANGED <<statesContainer, modifiersContainer, getElementKey, stack,
                      pending, nAdd, nChange, nKey>>

CreateRelationship(dep, stateName, dept, modifierName, inheritState) ==
    LET r == createRelationship(Heap, statesContainer, modifiersContainer, getElementKey,
                                dep, stateName, dept, modifierName, inheritState)
        call == <<getElementKey, dep, stateName, dept, modifierName, inheritState>>
    IN /\ Idle
       /\ nRel < MaxRel
       /\ elements' = r.heap.elements
       /\ elementObjs' = r.heap.elementObjs
       /\ stateObjs' = r.heap.stateObjs
       /\ modifierObjs' = r.heap.modifierObjs
       /\ nRel' = nRel + 1
       /\ log' = <<>>
       /\ last' = Op("createRelationship",
                     <<dep, stateName, dept, modifierName, inheritState>>,
                     r.result, call \in calls)
       /\ calls' = IF r.result = "ok" THEN calls \cup {call} ELSE calls
       /\ resolutions' = resolutions \cup Range(r.resolved)
       /\ UNCHANGED <<statesContainer, modifiersContainer, getElementKey, value, stack,
                      pending, nAdd, nChange, nKey>>

\* The host raises its change event with the flag set to v: every handler bound to
\* it runs, up to the first Modifier.execute.
Change(h, v) ==
    LET val == [value EXCEPT ![h] = v]
        r == settle(Heap, val, <<>>, handlers(Heap, h), <<>>)
    IN /\ Idle
       /\ nChange < MaxChange
       /\ value' = val
       /\ stack' = r.stack
       /\ pending' = r.pending
       /\ log' = r.log
       /\ nChange' = nChange + 1
       /\ last' = Op("change", <<h, v>>,
                     IF r.stack = <<>> THEN "done" ELSE "running", FALSE)
       /\ UNCHANGED <<statesContainer, modifiersContainer, getElementKey, elements,
                      elementObjs, stateObjs, modifierObjs, calls, resolutions, nRel, nAdd, nKey>>

\* Modifier.execute of the next subscriber: the mutation callback on its
\* Element's host, then modifyDependents of that Element, up to the next execute.
\* A callback that throws, or a call nested deeper than the call stack allows
\* (RangeError), unwinds every running call and the remaining change handlers.
Execute ==
    /\ stack # <<>>
    /\ LET d == Len(stack)
           top == stack[d]
           s == top.active[top.si]
           m == publishList(Heap, s)[top.mi]
           e == modifierObjs[m].element
           failed == throws(modifierObjs[m].callback)
           lg == Append(log, Entry(IF failed THEN "throw" ELSE "execute", e, s, m, <<>>, d,
                                   value[hostOf(Heap, e)], value))
           stk == [stack EXCEPT ![d].mi = @ + 1]
       IN \E x \in {execute(Heap, value, m)} :
          \E r \in {settle(Heap, x.value, Append(stk, x.frame), pending,
                            Append(lg, Entry("fanout", e, 0, 0, x.frame.active, d + 1,
                                             x.flag, x.value)))} :
          /\ value' = x.value
          /\ IF failed \/ d + 1 > MaxDepth
             THEN /\ stack' = <<>>
                  /\ pending' = <<>>
                  /\ log' = lg
                  /\ last' = [last EXCEPT !.result =
                                  IF failed THEN "Error" ELSE "RangeError"]
             ELSE /\ stack' = r.stack
                  /\ pending' = r.pending
                  /\ log' = r.log
                  /\ last' = [last EXCEPT !.result =
                                  IF r.stack = <<>> THEN "done" ELSE "running"]
    /\ UNCHANGED <<statesContainer, modifiersContainer, getElementKey, elements,
                   elementObjs, stateObjs, modifierObjs, calls, resolutions, nRel, nAdd, nChange, nKey>>

Next ==
    \/ \E name \in StateNames, callback \in Preds : AddState(name, callback)
    \/ \E name \in ModifierNames, callback \in Muts : AddModifier(name, callback)
    \/ \E callback \in Resolvers : SetElementKeyCallback(callback)
    \/ \E pair \in Pairs, stateName \in StateNames,
          modifierName \in ModifierNames, inheritState \in BOOLEAN :
            CreateRelationship(pair[1], stateName, pair[2], modifierName, inheritState)
    \/ \E h \in Inputs, v \in Values : Change(h, v)
    \/ Execute

Spec == Init /\ [][Next]_vars

(***************************************************************************)
(* Element identity.                                                       *)
(***************************************************************************)
keyOf(r) == attr(r.host, r.resolver)

\* every Element ever built is stored under exactly one key
SingletonPerKey ==
    /\ Len(elementObjs) = Cardinality({k \in Keys : elements[k] # 0})
    /\ \A e \in 1..Len(elementObjs) : \E k \in Keys : elements[k] = e

\* C1 as stated: whatever operations ran (a replacement of the key callback
\* included), all resolutions of one host returned one and the same Element, and
\* no key ever had a second Element.
C1_AnyResolver ==
    /\ \A x, y \in resolutions : x.host = y.host => x.element = y.element
    /\ SingletonPerKey

\* C1 (amended): two resolutions whose hosts yield the same key, in particular two
\* resolutions of one host under the same key callback, return the identical
\* Element, and no key ever has a second Element.
C1_SameKeySameElement ==
    /\ \A x, y \in resolutions : keyOf(x) = keyOf(y) => x.element = y.element
    /\ SingletonPerKey

\* one host resolved under both key callbacks, and a key resolved for two hosts
C1_Witness ==
    /\ \E x, y \in resolutions :
          x.host = y.host /\ x.resolver # y.resolver /\ keyOf(x) # keyOf(y)
    /\ \E x, y \in resolutions : x.host # y.host /\ keyOf(x) = keyOf(y)

(***************************************************************************)
(* Reading the log of a change event.                                      *)
(***************************************************************************)
Done == last.op = "change" /\ last.result = "done"

Fanouts == {i \in 1..Len(log) : log[i].kind = "fanout"}
Executions == {i \in 1..Len(log) : log[i].kind = "execute"}

\* the State instances attached to Element e
attached(e) == {elementObjs[e].states[n] : n \in StateNames} \ {0}

\* the States of the Element of fan-out i whose predicate held on the flag it read
activeAt(i) ==
    {s \in attached(log[i].element) : evalPred(stateObjs[s].callback, log[i].flag)}

\* how often Modifier m ran its callback in this event
execCount(m) == Cardinality({i \in Executions : log[i].modifier = m})

\* one element per (fan-out, active State, occurrence of m among its subscribers)
notifications(m) ==
    UNION {UNION {{<<i, s, j>> : j \in {k \in 1..Len(stateObjs[s].modifiers) :
                                          stateObjs[s].modifiers[k] = m}} :
                  s \in activeAt(i)} :
           i \in Fanouts}

\* C2 as stated: when the change event of a host is over, every Modifier subscribed
\* to a State that was active when the host's own fan-out began has run its
\* callback exactly once.
C2_ExactlyOnce ==
    Done =>
      \A i \in Fanouts : log[i].depth = 1 =>
        \A s \in activeAt(i) :
          \A j \in 1..Len(stateObjs[s].modifiers) :
            execCount(stateObjs[s].modifiers[j]) = 1

\* C2 (amended): when the change event is over (no callback threw, the cascade
\* ended), each Modifier has run its callback once per occurrence in the
\* subscriber list of each State active at a fan-out of the event: at least once
\* for a subscriber of a State active at the host's own fan-out, and more than
\* once for a duplicate subscription or a second publication reaching it.
C2_OncePerNotification ==
    Done =>
      /\ \A m \in 1..Len(modifierObjs) : execCount(m) = Cardinality(notifications(m))
      /\ \A i \in Fanouts : log[i].depth = 1 =>
           \A s \in activeAt(i) :
             \A j \in 1..Len(stateObjs[s].modifiers) :
               execCount(stateObjs[s].modifiers[j]) >= 1

\* an event that ran a subscriber of the changed host's active State exactly once,
\* on another host
C2_Witness ==
    /\ Done
    /\ \E i \in Fanouts :
         /\ log[i].depth = 1
         /\ \E s \in activeAt(i) :
              \E j \in 1..Len(stateObjs[s].modifiers) :
                LET m == stateObjs[s].modifiers[j]
                IN /\ execCount(m) = 1
                   /\ hostOf(Heap, modifierObjs[m].element) # last.args[1]

(***************************************************************************)
(* Modifier.execute: the callback first, the cascade second.               *)
(***************************************************************************)
\* the first State of a fan-out entry that has a subscriber (0: none)
firstPublisher(f) ==
    LET ks == {k \in 1..Len(f.active) : stateObjs[f.active[k]].modifiers # <<>>}
    IN IF ks = {} THEN 0
       ELSE f.active[CHOOSE k \in ks : \A k2 \in ks : k <= k2]

\* C3: every callback that returned is followed at once by the fan-out of its own
\* Element, one level deeper, whose predicates read the host as the callback left
\* it: the States it collects are exactly those true of the mutated host.  If one
\* of them has a subscriber, the event is not over before that subscriber has been
\* executed, next in the log and one level deeper: M1, then M2.
C3_MutateThenCascade ==
    \A i \in Executions :
      IF i = Len(log) THEN last.result = "RangeError"
      ELSE LET x == log[i]
               f == log[i + 1]
               p == firstPublisher(f)
           IN /\ f.kind = "fanout"
              /\ f.element = x.element
              /\ f.depth = x.depth + 1
              /\ f.flag = applyMut(modifierObjs[x.modifier].callback, x.flag)
              /\ Range(f.active) = activeAt(i + 1)
              /\ p # 0 =>
                   IF i + 1 = Len(log) THEN last.result = "running"
                   ELSE /\ log[i + 2].kind \in {"execute", "throw"}
                        /\ log[i + 2].state = p
                        /\ log[i + 2].modifier = stateObjs[p].modifiers[1]
                        /\ log[i + 2].depth = x.depth + 1

\* the chain D -> M1 (on E1) -> M2 (on E2) on three hosts: E1's State was false
\* until M1 ran and true afterwards, and M2 ran right after M1
C3_Witness ==
    /\ Done
    /\ \E i \in Executions :
         /\ i + 2 <= Len(log)
         /\ log[i].depth = 1
         /\ log[i].flag = 0
         /\ log[i + 1].flag = 1
         /\ log[i + 1].active # <<>>
         /\ log[i + 2].kind = "execute"
         /\ log[i + 2].depth = 2
         /\ Cardinality({last.args[1], hostOf(Heap, log[i].element),
                         hostOf(Heap, log[i + 2].element)}) = 3

(***************************************************************************)
(* createRelationship, step by step.  A step that counts a call in nRel is *)
(* a call createRelationship(dep, stateName, dept, modifierName, inherit)  *)
(* with the arguments last' records; unprimed variables are the graph      *)
(* before it, primed ones the graph it leaves.                             *)
(***************************************************************************)
RelStep == nRel' = nRel + 1
stateNameArg == last'.args[2]
modifierNameArg == last'.args[4]
inheritArg == last'.args[5]

\* the Elements that existed before the step are as they were
ElementsKept == \A e \in 1..Len(elementObjs) : elementObjs'[e] = elementObjs[e]

\* the Elements built by the step carry neither State nor Modifier
NewElementsBare ==
    \A e \in (Len(elementObjs) + 1)..Len(elementObjs') :
        /\ elementObjs'[e].keys = <<>>
        /\ \A n \in StateNames : elementObjs'[e].states[n] = 0
        /\ \A n \in ModifierNames : elementObjs'[e].modifiers[n] = 0

\* C4: a createRelationship call whose state name has no template fails, and it
\* leaves every State and Modifier instance, every attachment map and every
\* subscription list as it found them (the Elements it resolved on the way are
\* new and bare).
C4_UnknownStateAttachesNothing ==
    [][(RelStep /\ statesContainer[stateNameArg] = None) =>
          /\ last'.result = "TypeError"
          /\ stateObjs' = stateObjs
          /\ modifierObjs' = modifierObjs
          /\ ElementsKept
          /\ NewElementsBare]_vars

\* a call that failed on its state name although the modifier name was registered
\* and the graph already held a relationship
C4_Witness ==
    /\ last.op = "createRelationship"
    /\ last.result = "TypeError"
    /\ statesContainer[last.args[2]] = None
    /\ modifiersContainer[last.args[4]] # None
    /\ stateObjs # <<>>
    /\ modifierObjs # <<>>

\* C5 as stated: a createRelationship call that fails, on either name, leaves the
\* attachment maps and the subscription lists of every Element as they were.
C5_FailureChangesNothing ==
    [][(RelStep /\ last'.result = "TypeError") =>
          /\ stateObjs' = stateObjs
          /\ modifierObjs' = modifierObjs
          /\ ElementsKept
          /\ NewElementsBare]_vars

(***************************************************************************)
(* What a successful createRelationship step adds to the graph.            *)
(***************************************************************************)
OkStep == RelStep /\ last'.result = "ok"

\* the dependency Element, its State, the dependent Element and its Modifier
depElement == elements'[attr(last'.args[1], getElementKey)]
deptElement == elements'[attr(last'.args[3], getElementKey)]
pubStateOf == elementObjs'[depElement].states[stateNameArg]
subModifierOf == elementObjs'[deptElement].modifiers[modifierNameArg]

\* the lists the instances had before the step (empty for an instance it made)
statesBefore(m) == IF m \in 1..Len(modifierObjs) THEN modifierObjs[m].states ELSE <<>>
modifiersBefore(t) == IF t \in 1..Len(stateObjs) THEN stateObjs[t].modifiers ELSE <<>>

\* the Modifier named like the dependent's one that the dependency Element carried
\* before the step (0: none)
upstreamBefore ==
    IF depElement \in 1..Len(elementObjs)
    THEN elementObjs[depElement].modifiers[modifierNameArg]
    ELSE 0

occurrences(seq, x) == Cardinality({j \in 1..Len(seq) : seq[j] = x})

\* the subscriptions inheritance adds: the list of the dependency's Modifier as it
\* is once the explicit subscription has been made
inherited ==
    IF depElement = deptElement
    THEN Append(statesBefore(subModifierOf), pubStateOf)
    ELSE statesBefore(upstreamBefore)

\* the step appended exactly `added` to the Modifier's list, the Modifier once per
\* entry of `added` to the subscriber lists of the States in it, and nothing else
Subscribed(added) ==
    /\ modifierObjs'[subModifierOf].states = statesBefore(subModifierOf) \o added
    /\ \A m \in 1..Len(modifierObjs') :
         m # subModifierOf => modifierObjs'[m].states = statesBefore(m)
    /\ \A t \in 1..Len(stateObjs') :
         stateObjs'[t].modifiers =
            modifiersBefore(t) \o [j \in 1..occurrences(added, t) |-> subModifierOf]

\* the graph the same call leaves with inheritState = false
withoutInheritance ==
    createRelationship(Heap, statesContainer, modifiersContainer, getElementKey,
                       last'.args[1], stateNameArg, last'.args[3], modifierNameArg,
                       FALSE).heap

\* C6 as stated: with inheritState = true the dependent's Modifier ends up
\* subscribed to the dependency's State and to every State the dependency's own
\* Modifier of that name held before the call, each of them listing it as
\* subscriber; and when the dependency carried no such Modifier the graph is the
\* one inheritState = false produces.
C6_NoUpstreamNoInheritance ==
    [][(OkStep /\ inheritArg) =>
          /\ \A t \in {pubStateOf} \cup Range(statesBefore(upstreamBefore)) :
               /\ t \in Range(modifierObjs'[subModifierOf].states)
               /\ subModifierOf \in Range(stateObjs'[t].modifiers)
          /\ upstreamBefore = 0 => Heap' = withoutInheritance]_vars

\* C6 (amended): with inheritState = true the dependent's Modifier gains the
\* dependency's State and then, in order, every entry of the list the
\* dependency's Modifier of that name holds once that explicit subscription is
\* made; each State gains it as subscriber once per entry.  The graph is the
\* one inheritState = false produces when the dependency carries no such Modifier
\* and the two Elements differ; when they are one Element the Modifier inherits
\* from itself, the State just subscribed included.
C6_InheritsUpstreamList ==
    [][(OkStep /\ inheritArg) =>
          /\ Subscribed(<<pubStateOf>> \o inherited)
          /\ (upstreamBefore = 0 /\ depElement # deptElement) =>
                Heap' = withoutInheritance]_vars

\* an inheriting call between two Elements whose dependency carried a Modifier of
\* that name with a subscription of its own, which the dependent now shares
C6_Witness ==
    /\ last.op = "createRelationship"
    /\ last.result = "ok"
    /\ last.args[5]
    /\ LET D == elements[attr(last.args[1], getElementKey)]
           E == elements[attr(last.args[3], getElementKey)]
           up == elementObjs[D].modifiers[last.args[4]]
           m == elementObjs[E].modifiers[last.args[4]]
       IN /\ D # E
          /\ up # 0
          /\ modifierObjs[up].states # <<>>
          /\ modifierObjs[m].states =
                <<elementObjs[D].states[last.args[2]]>> \o modifierObjs[up].states

\* C7 as stated: a second call with the same arguments makes no instance and
\* changes no attachment map, and the State's subscriber list and the Modifier's
\* subscription list each grow by exactly one entry.
C7_ExactlyOneDuplicate ==
    [][(RelStep /\ last'.repeat) =>
          /\ last'.result = "ok"
          /\ elements' = elements
          /\ elementObjs' = elementObjs
          /\ Len(stateObjs') = Len(stateObjs)
          /\ Len(modifierObjs') = Len(modifierObjs)
          /\ Len(modifierObjs'[subModifierOf].states) =
                Len(modifierObjs[subModifierOf].states) + 1
          /\ Len(stateObjs'[pubStateOf].modifiers) =
                Len(stateObjs[pubStateOf].modifiers) + 1]_vars

\* C7 (amended): a second call with the same arguments, under the same key
\* callback, makes no instance and changes no attachment map.  With
\* inheritState = false the State's subscriber list and the Modifier's
\* subscription list each gain exactly one duplicate entry and nothing else
\* changes; with inheritState = true the Modifier gains, after that entry, one
\* more for every entry of the list of the dependency's Modifier of that name.
C7_RepeatAddsNoInstance ==
    [][(RelStep /\ last'.repeat) =>
          /\ last'.result = "ok"
          /\ elements' = elements
          /\ elementObjs' = elementObjs
          /\ Len(stateObjs') = Len(stateObjs)
          /\ Len(modifierObjs') = Len(modifierObjs)
          /\ Subscribed(<<pubStateOf>> \o (IF inheritArg THEN inherited ELSE <<>>))]_vars

\* a repeated call without inheritance: the Modifier holds the State twice, the
\* State the Modifier twice
C7_Witness ==
    /\ last.op = "createRelationship"
    /\ last.repeat
    /\ ~last.args[5]
    /\ LET s == elementObjs[elements[attr(last.args[1], getElementKey)]].states[last.args[2]]
           m == elementObjs[elements[attr(last.args[3], getElementKey)]].modifiers[last.args[4]]
       IN /\ modifierObjs[m].states = <<s, s>>
          /\ stateObjs[s].modifiers = <<m, m>>

(***************************************************************************)
(* Which callbacks a change event runs, and in which order.                *)
(***************************************************************************)
\* the callbacks invoked: those that returned and the one that threw
Invocations == {i \in 1..Len(log) : log[i].kind \in {"execute", "throw"}}

\* the fan-out whose loop invoked entry i: the latest one at the same depth
enclosing(i) ==
    LET js == {j \in Fanouts : j < i /\ log[j].depth = log[i].depth}
    IN IF js = {} THEN 0 ELSE CHOOSE j \in js : \A j2 \in js : j2 <= j

ChangeStep == nChange' = nChange + 1

\* no State of any Element built on host h holds of flag v
noneActive(h, v) ==
    \A e \in 1..Len(elementObjs) :
        elementObjs[e].host = h =>
            \A s \in attached(e) : ~evalPred(stateObjs[s].callback, v)

\* C8: a callback is invoked only by a State its Modifier subscribes to, in a
\* fan-out of that State's Element that found the State's predicate true; and a
\* change on a host none of whose States is active is over at once, has invoked no
\* callback and leaves every other host as it was.
C8_OnlyActiveStatesPublish ==
    /\ [](\A i \in Invocations :
            LET j == enclosing(i)
            IN /\ j # 0
               /\ log[i].state \in Range(modifierObjs[log[i].modifier].states)
               /\ stateObjs[log[i].state].element = log[j].element
               /\ evalPred(stateObjs[log[i].state].callback, log[j].flag))
    /\ [][(ChangeStep /\ noneActive(last'.args[1], last'.args[2])) =>
             /\ last'.result = "done"
             /\ stack' = <<>>
             /\ \A i \in 1..Len(log') : log'[i].kind = "fanout"
             /\ value' = [value EXCEPT ![last'.args[1]] = last'.args[2]]]_vars

\* a change on an Element whose only State has a subscriber but is not active:
\* nothing ran
C8_Witness ==
    /\ Done
    /\ Invocations = {}
    /\ \E i \in Fanouts :
         /\ activeAt(i) = {}
         /\ \E s \in attached(log[i].element) : stateObjs[s].modifiers # <<>>

\* C9: when a change event is over (no callback threw, the cascade ended), every
\* State that was active when a fan-out of its Element began has executed each of
\* its subscribers after that point.
C9_EverySubscriberRuns ==
    Done =>
      \A i \in Fanouts :
        \A s \in activeAt(i) :
          \A j \in 1..Len(stateObjs[s].modifiers) :
            \E k \in Executions :
              /\ k > i
              /\ log[k].state = s
              /\ log[k].modifier = stateObjs[s].modifiers[j]

\* a finished event that ran a Modifier subscribed to States of two Elements
\* (fan-in, here gained by inheritance), once for each of them
C9_Witness ==
    /\ Done
    /\ \E k1, k2 \in Executions :
         /\ log[k1].modifier = log[k2].modifier
         /\ stateObjs[log[k1].state].element # stateObjs[log[k2].state].element
         /\ Cardinality({stateObjs[t].element :
                            t \in Range(modifierObjs[log[k1].modifier].states)}) >= 2

\* the States attached to Element e, oldest attachment first
attachmentOrder(e) ==
    [k \in 1..Len(elementObjs[e].keys) |->
        elementObjs[e].states[elementObjs[e].keys[k]]]

\* the (State, Modifier) invocations a fan-out over `active` is to make, in order
RECURSIVE callsOf(_)
callsOf(active) ==
    IF active = <<>> THEN <<>>
    ELSE [k \in 1..Len(stateObjs[Head(active)].modifiers) |->
             <<Head(active), stateObjs[Head(active)].modifiers[k]>>]
         \o callsOf(Tail(active))

\* the (State, Modifier) invocations fan-out j has made, from entry i on
RECURSIVE ownedFrom(_, _)
ownedFrom(j, i) ==
    IF i > Len(log) THEN <<>>
    ELSE (IF i \in Invocations /\ enclosing(i) = j
          THEN << <<log[i].state, log[i].modifier>> >> ELSE <<>>)
         \o ownedFrom(j, i + 1)

isPrefix(a, b) == Len(a) <= Len(b) /\ a = SubSeq(b, 1, Len(a))

\* Depth-first and synchronous: a callback that returned is followed at once by the
\* fan-out of its Element one level deeper; a nested fan-out directly follows the
\* callback that started it; the invocations of a fan-out are, in order, those of
\* its active States' subscription lists, all of them once the event is over; and
\* the event is over exactly when no call is left running.
DepthFirst ==
    /\ \A i \in Executions :
         i < Len(log) =>
            /\ log[i + 1].kind = "fanout"
            /\ log[i + 1].depth = log[i].depth + 1
            /\ log[i + 1].element = log[i].element
    /\ \A j \in Fanouts :
         /\ isPrefix(ownedFrom(j, j + 1), callsOf(log[j].active))
         /\ Done => ownedFrom(j, j + 1) = callsOf(log[j].active)
         /\ log[j].depth > 1 =>
               /\ j > 1
               /\ log[j - 1].kind = "execute"
               /\ log[j - 1].depth = log[j].depth - 1
    /\ (last.op = "change" /\ last.result = "running") <=> stack # <<>>

\* every fan-out took its Element's active States in attachment order
AttachmentOrder ==
    \A j \in Fanouts :
        log[j].active = filterSeq(attachmentOrder(log[j].element), activeAt(j))

\* C10: within one change event the callbacks run depth-first and synchronously,
\* an Element's active States publishing in attachment order and each State
\* executing its subscribers in subscription order.
C10_DepthFirstAttachmentOrder == DepthFirst /\ AttachmentOrder

(***************************************************************************)
(* Termination.  The relationship graph has an edge from the Element of a  *)
(* State to the Element of each Modifier in the State's subscriber list.   *)
(* A nesting deeper than MaxDepth stands for a recursion the call stack    *)
(* cannot hold: the event ends in a RangeError.                            *)
(***************************************************************************)
edge(e1, e2) ==
    \E s \in 1..Len(stateObjs) :
        /\ stateObjs[s].element = e1
        /\ \E j \in 1..Len(stateObjs[s].modifiers) :
              modifierObjs[stateObjs[s].modifiers[j]].element = e2

successors(S) == {e2 \in 1..Len(elementObjs) : \E e1 \in S : edge(e1, e2)}

\* the Elements reached from S along at most n edges
RECURSIVE reach(_, _)
reach(S, n) == IF n = 0 THEN S ELSE reach(S \cup successors(S), n - 1)

onCycle(e) == e \in reach(successors({e}), Len(elementObjs))

Acyclic == \A e \in 1..Len(elementObjs) : ~onCycle(e)

\* the cascade is scheduled by the call stack: a running call always goes on
FairSpec == Spec /\ WF_vars(Execute)

\* C11: over an acyclic relationship graph no call nests deeper than there are
\* Elements, so the recursion never outgrows the call stack, and every change
\* event comes to its end: no call is left running and every callback that was
\* due has run (or one has thrown).
C11_AcyclicTerminates ==
    /\ [](Acyclic =>
            /\ last.result # "RangeError"
            /\ \A i \in 1..Len(log) : log[i].depth <= Len(elementObjs))
    /\ (Acyclic /\ last.op = "change") ~>
           (Idle /\ last.result \in {"done", "Error"})

\* a finished event over an acyclic graph that cascaded over two hops
C11_Witness ==
    /\ Done
    /\ Acyclic
    /\ \E i \in Executions : log[i].depth = 2

\* fan-out j begins while fan-out i is still running (i is on the call stack)
inside(i, j) ==
    /\ i < j
    /\ log[j].depth > log[i].depth
    /\ \A k \in Fanouts : (i < k /\ k <= j) => log[k].depth > log[i].depth

\* the cascade has re-entered an Element whose fan-out is still running, and found
\* the hosts as that fan-out had found them
Reentered ==
    \E i, j \in Fanouts :
        /\ inside(i, j)
        /\ log[j].element = log[i].element
        /\ log[j].hosts = log[i].hosts

\* the last operation is a change event on the host of an Element that lies on a
\* cycle of the relationship graph
triggerOnCycle ==
    /\ last.op = "change"
    /\ \E e \in 1..Len(elementObjs) : hostOf(Heap, e) = last.args[1] /\ onCycle(e)

\* C12 as stated: a change event on an element of a dependency cycle never comes
\* to a normal end.
C12_CycleNeverCompletes == triggerOnCycle => last.result # "done"

\* C12 (amended): nothing stops a cascade from re-entering an Element whose fan-out
\* is still running.  Once it has re-entered one with the hosts as that fan-out
\* found them, the event never completes and no callback throws: the recursion
\* goes on until the call stack overflows.
C12_ReentryNeverCompletes ==
    /\ [](Reentered => last.result \in {"running", "RangeError"})
    /\ Reentered ~> (last.result = "RangeError")

\* a change on an element of a cycle that recursed until the stack overflowed
C12_Witness ==
    /\ triggerOnCycle
    /\ Reentered
    /\ last.result = "RangeError"

(***************************************************************************)
(* Invariants of the object graph.                                         *)
(***************************************************************************)
\* C13: every State lists a Modifier as subscriber exactly as often as that
\* Modifier lists the State as subscription, duplicates and inherited
\* subscriptions included.
C13_EdgesBidirectional ==
    \A s \in 1..Len(stateObjs) :
      \A m \in 1..Len(modifierObjs) :
        occurrences(stateObjs[s].modifiers, m) = occurrences(modifierObjs[m].states, s)

\* a Modifier that holds one State twice (a duplicate subscription) and a second
\* State once, each State listing it as often
C13_Witness ==
    \E m \in 1..Len(modifierObjs) :
      \E s, t \in 1..Len(stateObjs) :
        /\ s # t
        /\ occurrences(modifierObjs[m].states, s) >= 2
        /\ occurrences(stateObjs[s].modifiers, m) >= 2
        /\ occurrences(modifierObjs[m].states, t) = 1
        /\ occurrences(stateObjs[t].modifiers, m) = 1

(***************************************************************************)
(* One fan-out: predicates are read once, before the first publish.        *)
(***************************************************************************)
\* the States that published in fan-out j
publishers(j) == {ownedFrom(j, j + 1)[k][1] : k \in 1..Len(ownedFrom(j, j + 1))}

\* C14: the States a fan-out collects are those whose predicate held of the flag
\* the host had when the fan-out began, only they publish in it, and in a
\* finished event each of them that has a subscriber has published, whatever the
\* earlier publishes of the fan-out did to the host.
C14_ActiveSetFixedAtStart ==
    \A j \in Fanouts :
        /\ log[j].flag = log[j].hosts[hostOf(Heap, log[j].element)]
        /\ Range(log[j].active) = activeAt(j)
        /\ publishers(j) \subseteq activeAt(j)
        /\ Done => publishers(j) = {s \in activeAt(j) : stateObjs[s].modifiers # <<>>}

\* a finished event in which a State published although the publish of another
\* State, earlier in the same fan-out, had made its predicate false
C14_Witness ==
    /\ Done
    /\ \E i, i0 \in Executions :
         LET j == enclosing(i)
             s == log[i].state
         IN /\ i0 < i
            /\ enclosing(i0) = j
            /\ log[i0].state # s
            /\ s \in activeAt(j)
            /\ ~evalPred(stateObjs[s].callback,
                         log[i].hosts[hostOf(Heap, log[j].element)])

\* C15: the instance an Element stores under a name has that Element as owner,
\* every instance is stored by its owner and by no other Element (nor under a
\* second name), and the owner of an instance never changes.
C15_OneOwner ==
    /\ [](/\ \A e \in 1..Len(elementObjs) :
              /\ \A n \in StateNames :
                   elementObjs[e].states[n] # 0 =>
                       stateObjs[elementObjs[e].states[n]].element = e
              /\ \A n \in ModifierNames :
                   elementObjs[e].modifiers[n] # 0 =>
                       modifierObjs[elementObjs[e].modifiers[n]].element = e
          /\ \A s \in 1..Len(stateObjs) :
               Cardinality({<<e, n>> \in (1..Len(elementObjs)) \X StateNames :
                               elementObjs[e].states[n] = s}) = 1
          /\ \A m \in 1..Len(modifierObjs) :
               Cardinality({<<e, n>> \in (1..Len(elementObjs)) \X ModifierNames :
                               elementObjs[e].modifiers[n] = m}) = 1)
    /\ [][/\ \A s \in 1..Len(stateObjs) : stateObjs'[s].element = stateObjs[s].element
          /\ \A m \in 1..Len(modifierObjs) :
               modifierObjs'[m].element = modifierObjs[m].element]_vars

\* two Elements that carry a State under the same name, and two that carry a
\* Modifier under the same name: four instances
C15_Witness ==
    /\ \E e1, e2 \in 1..Len(elementObjs) : \E n \in StateNames :
         /\ e1 # e2
         /\ elementObjs[e1].states[n] # 0
         /\ elementObjs[e2].states[n] # 0
         /\ elementObjs[e1].states[n] # elementObjs[e2].states[n]
    /\ \E e1, e2 \in 1..Len(elementObjs) : \E n \in ModifierNames :
         /\ e1 # e2
         /\ elementObjs[e1].modifiers[n] # 0
         /\ elementObjs[e2].modifiers[n] # 0
         /\ elementObjs[e1].modifiers[n] # elementObjs[e2].modifiers[n]

(***************************************************************************)
(* A callback that throws.                                                 *)
(***************************************************************************)
\* the step in which a running cascade ends by a throw
ThrowStep == stack # <<>> /\ last'.result = "Error"

\* C16: a Modifier whose callback throws is the last thing its event does: the
\* throw unwinds every running call and the handlers still to run, so nothing
\* that was still due executes; the hosts stay as the callbacks executed before it
\* left them, and the registries and the graph are untouched.
C16_ThrowEndsCascade ==
    /\ [](\A i \in Invocations :
            modifierObjs[log[i].modifier].callback = "fail" =>
                /\ log[i].kind = "throw"
                /\ i = Len(log)
                /\ last.result = "Error"
                /\ Idle
                /\ value = log[i].hosts
                /\ \A k \in Executions :
                     log[k + 1].hosts =
                        [log[k].hosts EXCEPT ![hostOf(Heap, log[k].element)] =
                            applyMut(modifierObjs[log[k].modifier].callback, @)])
    /\ [][ThrowStep =>
             /\ stack' = <<>>
             /\ pending' = <<>>
             /\ value' = value
             /\ Heap' = Heap
             /\ statesContainer' = statesContainer
             /\ modifiersContainer' = modifiersContainer
             /\ log' = Append(log, log'[Len(log')])
             /\ log'[Len(log')].kind = "throw"]_vars

\* an event that ended by a throw after another callback had changed a host, with
\* a subscriber of the changed element's State still due
C16_Witness ==
    /\ last.result = "Error"
    /\ \E k \in Executions :
         log[k + 1].hosts # log[k].hosts /\ value = log[k + 1].hosts
    /\ \E j \in Fanouts :
         /\ log[j].depth = 1
         /\ Len(ownedFrom(j, j + 1)) < Len(callsOf(log[j].active))

(***************************************************************************)
(* Replacing a template or the key callback.                               *)
(***************************************************************************)
AddStep == nAdd' = nAdd + 1
KeyStep == nKey' = nKey + 1

\* C17: registering a template, again or for the first time, changes no instance
\* and no Element.  In every step each instance keeps the callback it was made
\* with and each Element keeps the instance it carries under a name; an instance
\* made by createRelationship carries the callback registered under its name at
\* the time of that call.
C17_LastWriteForNewInstances ==
    /\ [][AddStep =>
             /\ Heap' = Heap
             /\ \A n \in StateNames :
                  n # last'.args[1] => statesContainer'[n] = statesContainer[n]
             /\ \A n \in ModifierNames :
                  n # last'.args[1] => modifiersContainer'[n] = modifiersContainer[n]
             /\ \/ last'.op = "addState" /\ statesContainer'[last'.args[1]] = last'.args[2]
                                        /\ modifiersContainer' = modifiersContainer
                \/ last'.op = "addModifier"
                      /\ modifiersContainer'[last'.args[1]] = last'.args[2]
                      /\ statesContainer' = statesContainer]_vars
    /\ [][/\ \A s \in 1..Len(stateObjs) : stateObjs'[s].callback = stateObjs[s].callback
          /\ \A m \in 1..Len(modifierObjs) :
               modifierObjs'[m].callback = modifierObjs[m].callback
          /\ \A e \in 1..Len(elementObjs) :
               /\ \A n \in StateNames :
                    elementObjs[e].states[n] # 0 =>
                        elementObjs'[e].states[n] = elementObjs[e].states[n]
               /\ \A n \in ModifierNames :
                    elementObjs[e].modifiers[n] # 0 =>
                        elementObjs'[e].modifiers[n] = elementObjs[e].modifiers[n]
          /\ \A s \in (Len(stateObjs) + 1)..Len(stateObjs') :
               /\ RelStep
               /\ stateObjs'[s].callback = statesContainer[stateNameArg]
          /\ \A m \in (Len(modifierObjs) + 1)..Len(modifierObjs') :
               /\ RelStep
               /\ modifierObjs'[m].callback = modifiersContainer[modifierNameArg]]_vars

\* after addState(n, p2) replaced addState(n, p1): a finished event in which the
\* State made before the replacement was active by p1 where p2 is false, and the
\* State made under n afterwards was read by p2 where p1 is true
C17_Witness ==
    /\ Done
    /\ \E i, j \in Fanouts : \E n \in StateNames :
         LET s1 == elementObjs[log[i].element].states[n]
             s2 == elementObjs[log[j].element].states[n]
         IN /\ s1 # 0
            /\ s2 # 0
            /\ stateObjs[s1].callback # statesContainer[n]
            /\ stateObjs[s2].callback = statesContainer[n]
            /\ s1 \in Range(log[i].active)
            /\ ~evalPred(statesContainer[n], log[i].flag)
            /\ s2 \notin Range(log[j].active)
            /\ evalPred(stateObjs[s1].callback, log[j].flag)

\* C18: replacing the key callback changes nothing but the callback: the registry,
\* the Elements, their States, Modifiers and subscription lists are as before.  No
\* step ever moves an Element to another key or removes it, and every resolution
\* made after a replacement computes its key with the callback then in force.
C18_KeyReplacementKeepsElements ==
    /\ [][KeyStep =>
             /\ getElementKey' = last'.args[1]
             /\ elements' = elements
             /\ Heap' = Heap
             /\ resolutions' = resolutions]_vars
    /\ [][/\ \A k \in Keys : elements[k] # 0 => elements'[k] = elements[k]
          /\ \A r \in resolutions' \ resolutions :
               /\ r.resolver = getElementKey
               /\ elements'[keyOf(r)] = r.element]_vars

\* after a replacement: an Element resolved before it is still under its old key
\* with its State, and a later call resolved the same host under the new key to
\* another Element
C18_Witness ==
    /\ nKey = 1
    /\ \E x, y \in resolutions :
         /\ x.host = y.host
         /\ x.resolver # getElementKey
         /\ y.resolver = getElementKey
         /\ x.element # y.element
         /\ elements[keyOf(x)] = x.element
         /\ elements[keyOf(y)] = y.element
         /\ elementObjs[x.element].keys # <<>>

(***************************************************************************)
(* Setup is structural.                                                    *)
(***************************************************************************)
\* C19: an addState, addModifier, createRelationship or setElementKeyCallback call
\* changes no host and starts no cascade; a host changes only by the change event
\* raised on it or by a Modifier of an Element on it executing in a cascade.
C19_SetupInvokesNothing ==
    /\ [][(AddStep \/ RelStep \/ KeyStep) =>
             /\ value' = value
             /\ stack' = <<>>
             /\ pending' = <<>>
             /\ log' = <<>>]_vars
    /\ [][\A h \in Hosts :
            value'[h] # value[h] =>
               \/ ChangeStep /\ h = last'.args[1]
               \/ /\ stack # <<>>
                  /\ log'[Len(log) + 1].kind = "execute"
                  /\ hostOf(Heap, log'[Len(log) + 1].element) = h]_vars

\* a createRelationship call just returned: the dependency's State is active, the
\* dependent's Modifier would switch its host on, and that host is still off
C19_Witness ==
    /\ last.op = "createRelationship"
    /\ last.result = "ok"
    /\ LET D == elements[attr(last.args[1], getElementKey)]
           E == elements[attr(last.args[3], getElementKey)]
           s == elementObjs[D].states[last.args[2]]
           m == elementObjs[E].modifiers[last.args[4]]
       IN /\ hostOf(Heap, D) # hostOf(Heap, E)
          /\ evalPred(stateObjs[s].callback, value[hostOf(Heap, D)])
          /\ modifierObjs[m].callback = "turnOn"
          /\ value[hostOf(Heap, E)] = 0

(***************************************************************************)
(* Inheritance copies; it does not follow.                                 *)
(***************************************************************************)
\* the graph before any call
EmptyHeap == [elements |-> [k \in Keys |-> 0], elementObjs |-> <<>>,
              stateObjs |-> <<>>, modifierObjs |-> <<>>]

\* the graph after the call c = <<key callback, dep, stateName, dept,
\* modifierName, inheritState>> on graph H, with the templates now registered
after(H, c) ==
    createRelationship(H, statesContainer, modifiersContainer,
                       c[1], c[2], c[3], c[4], c[5], c[6]).heap

\* the subscription list of the Modifier under name n of the Element on host h,
\* each State given by the host of its Element
subscriptionHosts(H, h, n) ==
    LET es == {e \in 1..Len(H.elementObjs) : hostOf(H, e) = h /\ H.elementObjs[e].modifiers[n] # 0}
    IN IF es = {} THEN <<>>
       ELSE LET m == H.elementObjs[CHOOSE e \in es : TRUE].modifiers[n]
            IN [j \in 1..Len(H.modifierObjs[m].states) |->
                   hostOf(H, H.stateObjs[H.modifierObjs[m].states[j]].element)]

\* C20: a successful createRelationship call changes the subscription list of the
\* dependent's Modifier only: a Modifier that inherited from the dependency's
\* Modifier earlier gains nothing from a subscription made later.
C20_InheritanceIsCopy ==
    [][OkStep =>
          \A m \in 1..Len(modifierObjs) :
              m # subModifierOf => modifierObjs'[m].states = modifierObjs[m].states]_vars

\* two inheriting calls that form a chain, made downstream first: the upstream
\* Modifier's later subscription did not reach the Modifier that inherited from
\* it, and the same two calls in the other order give that Modifier another list
C20_Witness ==
    \E a, b \in calls :
        /\ calls = {a, b}
        /\ a[6] /\ b[6]
        /\ a[2] = b[4]
        /\ Cardinality({a[2], a[4], b[2]}) = 3
        /\ Heap = after(after(EmptyHeap, a), b)
        /\ subscriptionHosts(Heap, a[4], a[5]) = <<a[2]>>
        /\ subscriptionHosts(Heap, b[4], b[5]) = <<b[2]>>
        /\ subscriptionHosts(after(after(EmptyHeap, b), a), a[4], a[5]) = <<a[2], b[2]>>

====
